---------------------------- MODULE Spec2Model ----------------------------
(***************************************************************************)
(* crypto_price (workspace/skills/crypto-price/__init__.py): one call of   *)
(* the price lookup against a price/search HTTP service.                   *)
(*                                                                         *)
(* A Python str is a sequence of pieces of text, concatenated by \o: text  *)
(* that comes from the caller or the service (token names, JSON keys and   *)
(* strings) and text that is computed (digits) is one character a piece,   *)
(* so that lower(), substring tests and str() are computed on it; a        *)
(* literal of the source, which no operation looks into, is one piece.     *)
(* A JSON value, as response.json() returns it, is a tagged record:        *)
(*   null, bool, num (int), str, list (sequence of values),                *)
(*   obj (function from key strings to values).                            *)
(* An evaluation that may raise yields [ok |-> TRUE, v |-> value] or       *)
(* [ok |-> FALSE, cls |-> exception class, msg |-> str(e)].                *)
(***************************************************************************)
EXTENDS Integers, Sequences, FiniteSets, TLC

VARIABLES
    pc,               \* position of the call: start, direct, search, fallback, done
    token_name,       \* the argument of crypto_price
    first_coin_id,    \* local first_coin_id (JSON value), Unset before line 26
    requests,         \* URLs handed to requests.get so far, in order
    responses,        \* what the service answered to each of them, in order
    outcome,          \* what the call returned (Pending while it runs)
    json_error_class  \* the class response.json() raises on a malformed body

vars == <<pc, token_name, first_coin_id, requests, responses, outcome, json_error_class>>

-----------------------------------------------------------------------------
(* Bounds of the inputs *)

\* longest candidate sequence of a search response
MaxCoins == 3

\* usd figures 0..MaxUsd (besides the fixed 65000, null and true)
MaxUsd == 1

-----------------------------------------------------------------------------
(* String literals of the source *)

PRICE_URL_HEAD == <<"https://api.coingecko.com/api/v3/simple/price?ids=">>
PRICE_URL_TAIL == <<"&vs_currencies=usd">>
SEARCH_URL_HEAD == <<"https://api.coingecko.com/api/v3/search?query=">>
S_usd ==
    <<"u","s","d">>
S_coins ==
    <<"c","o","i","n","s">>
S_id ==
    <<"i","d">>
S_Dollar == <<"$">>
S_USD == <<" USD">>
S_FoundAs == <<" USD (found as ">>
S_Close == <<")">>
S_NoPriceFor == <<"Could not find price for ">>
S_Dot == <<".">>
S_CouldNotFind == <<"Could not find ">>
S_OrItsPrice == <<" or its price.">>
S_FailedToFetch == <<"Failed to fetch crypto price: ">>
S_Unexpected == <<"An unexpected error occurred: ">>

-----------------------------------------------------------------------------
(* Python's data model, as far as crypto_price uses it *)

\* str(None), str(True), str(False)
S_None == <<"None">>
S_True == <<"True">>
S_False == <<"False">>

\* str(e) of the exceptions the interpreter and the transport raise
\* (representative texts; KeyError's text is computed, see GetItem)
MSG_Unhashable == <<"unhashable type">>
MSG_NotIterable == <<"not iterable">>
MSG_NotSubscriptable == <<"not subscriptable">>
MSG_BadIndex == <<"bad index type">>
MSG_LeftOperand == <<"requires string as left operand">>
MSG_OutOfRange == <<"index out of range">>
MSG_Connection == <<"connection failed">>
MSG_HttpStatus == <<"500 Server Error">>
MSG_BadJson == <<"Expecting value">>

JNull == [ty |-> "null"]
JBool(b) == [ty |-> "bool", b |-> b]
JNum(n) == [ty |-> "num", n |-> n]
JStr(s) == [ty |-> "str", s |-> s]
JList(l) == [ty |-> "list", l |-> l]
JObj(o) == [ty |-> "obj", o |-> o]

\* the mapping {} (no key)
NoFields == [k \in {} |-> JNull]

Ok(v) == [ok |-> TRUE, v |-> v]
Raise(cls, msg) == [ok |-> FALSE, cls |-> cls, msg |-> msg]

\* str.lower() on one character (ASCII letters)
LowerChar(c) ==
    CASE c = "A" -> "a" [] c = "B" -> "b" [] c = "C" -> "c" [] c = "D" -> "d"
      [] c = "E" -> "e" [] c = "F" -> "f" [] c = "G" -> "g" [] c = "H" -> "h"
      [] c = "I" -> "i" [] c = "J" -> "j" [] c = "K" -> "k" [] c = "L" -> "l"
      [] c = "M" -> "m" [] c = "N" -> "n" [] c = "O" -> "o" [] c = "P" -> "p"
      [] c = "Q" -> "q" [] c = "R" -> "r" [] c = "S" -> "s" [] c = "T" -> "t"
      [] c = "U" -> "u" [] c = "V" -> "v" [] c = "W" -> "w" [] c = "X" -> "x"
      [] c = "Y" -> "y" [] c = "Z" -> "z" [] OTHER -> c

\* token_name.lower()
Lower(s) == [i \in 1..Len(s) |-> LowerChar(s[i])]

Digits == <<"0","1","2","3","4","5","6","7","8","9">>

\* str(n) of an int
RECURSIVE IntStr(_)
IntStr(n) ==
    IF n < 0 THEN <<"-">> \o IntStr(0 - n)
    ELSE IF n < 10 THEN <<Digits[n + 1]>>
    ELSE IntStr(n \div 10) \o <<Digits[(n % 10) + 1]>>

\* str(v) and repr(v), as an f-string field {v} and str(KeyError(v)) render them
RECURSIVE PyRepr(_)
RECURSIVE ListRepr(_)
RECURSIVE ObjRepr(_, _)
PyStr(v) ==
    CASE v.ty = "null" -> S_None
      [] v.ty = "bool" -> (IF v.b THEN S_True ELSE S_False)
      [] v.ty = "num" -> IntStr(v.n)
      [] v.ty = "str" -> v.s
      [] v.ty = "list" -> <<"[">> \o ListRepr(v.l) \o <<"]">>
      [] v.ty = "obj" -> <<"{">> \o ObjRepr(v.o, DOMAIN v.o) \o <<"}">>
PyRepr(v) ==
    IF v.ty = "str" THEN <<"'">> \o v.s \o <<"'">> ELSE PyStr(v)
ListRepr(l) ==
    IF Len(l) = 0 THEN <<>>
    ELSE IF Len(l) = 1 THEN PyRepr(l[1])
    ELSE PyRepr(l[1]) \o <<",", " ">> \o ListRepr(Tail(l))
ObjRepr(o, keys) ==
    IF keys = {} THEN <<>>
    ELSE LET k == CHOOSE x \in keys : TRUE
             item == <<"'">> \o k \o <<"'", ":", " ">> \o PyRepr(o[k])
         IN  IF keys = {k} THEN item
             ELSE item \o <<",", " ">> \o ObjRepr(o, keys \ {k})

\* bool(v)
Truthy(v) ==
    CASE v.ty = "null" -> FALSE
      [] v.ty = "bool" -> v.b
      [] v.ty = "num" -> v.n # 0
      [] v.ty = "str" -> Len(v.s) > 0
      [] v.ty = "list" -> Len(v.l) > 0
      [] v.ty = "obj" -> DOMAIN v.o # {}

IsInt(v) == v.ty \in {"bool", "num"}
AsInt(v) == IF v.ty = "bool" THEN (IF v.b THEN 1 ELSE 0) ELSE v.n

\* a == b (bool is an int; values of different types are unequal)
PyEq(a, b) ==
    IF IsInt(a) /\ IsInt(b) THEN AsInt(a) = AsInt(b)
    ELSE a.ty = b.ty /\ a = b

Hashable(v) == v.ty \notin {"list", "obj"}

\* sub in s, for two str
IsSubstring(sub, s) ==
    \E i \in 0..(Len(s) - Len(sub)) : SubSeq(s, i + 1, i + Len(sub)) = sub

\* a in b
Contains(a, b) ==
    CASE b.ty = "obj" ->
            IF ~Hashable(a) THEN Raise("TypeError", MSG_Unhashable)
            ELSE Ok(a.ty = "str" /\ a.s \in DOMAIN b.o)
      [] b.ty = "list" -> Ok(\E i \in 1..Len(b.l) : PyEq(b.l[i], a))
      [] b.ty = "str" ->
            IF a.ty # "str" THEN Raise("TypeError", MSG_LeftOperand)
            ELSE Ok(IsSubstring(a.s, b.s))
      [] OTHER -> Raise("TypeError", MSG_NotIterable)

\* the element of a sequence at Python index i (negative indices count from the end)
SeqItem(seq, i) ==
    IF 0 <= i /\ i < Len(seq) THEN Ok(seq[i + 1])
    ELSE IF i < 0 /\ 0 - Len(seq) <= i THEN Ok(seq[Len(seq) + i + 1])
    ELSE Raise("IndexError", MSG_OutOfRange)

\* the character of a str at Python index i, a str itself
CharItem(text, i) ==
    LET c == SeqItem(text, i) IN
    IF c.ok THEN Ok(JStr(<<c.v>>)) ELSE c

\* b[a]
GetItem(b, a) ==
    CASE b.ty = "obj" ->
            IF ~Hashable(a) THEN Raise("TypeError", MSG_Unhashable)
            ELSE IF a.ty = "str" /\ a.s \in DOMAIN b.o THEN Ok(b.o[a.s])
            ELSE Raise("KeyError", PyRepr(a))
      [] b.ty = "list" ->
            IF IsInt(a) THEN SeqItem(b.l, AsInt(a))
            ELSE Raise("TypeError", MSG_BadIndex)
      [] b.ty = "str" ->
            IF IsInt(a) THEN CharItem(b.s, AsInt(a))
            ELSE Raise("TypeError", MSG_BadIndex)
      [] OTHER -> Raise("TypeError", MSG_NotSubscriptable)

-----------------------------------------------------------------------------
(* crypto_price *)

\* the three ways a stretch of the body ends: a return statement, an exception
\* leaving the try block, or the next requests.get
Return(out) == [kind |-> "return", out |-> out]
Raised(exc) == [kind |-> "raise", exc |-> exc]
Continue(v) == [kind |-> "next", v |-> v]

\* f".../simple/price?ids={id}&vs_currencies=usd" and f".../search?query={q}"
PriceUrl(id) == PRICE_URL_HEAD \o id \o PRICE_URL_TAIL
SearchUrl(q) == SEARCH_URL_HEAD \o q

\* the direct lookup without .lower()
DirectKey_AsSupplied(name) == name

\* the identifier of the direct lookup: token_name.lower()
DirectKey(name) == Lower(name)

\* the search with the lowercased name
SearchTerm_Lowered(name) == Lower(name)

\* the query term of the search: token_name as supplied
SearchTerm(name) == name

\* the classes derived from requests.exceptions.RequestException
IsRequestException(cls) ==
    cls \in {"ConnectionError", "HTTPError", "requests.JSONDecodeError"}

\* the fetch without raise_for_status(): the body of an error page is parsed
Fetch_NoRaiseForStatus(r) ==
    IF r.st = "conn_fail" THEN Raise("ConnectionError", MSG_Connection)
    ELSE IF r.st = "bad_json" THEN Raise(json_error_class, MSG_BadJson)
    ELSE Ok(r.body)

\* requests.get(url); raise_for_status(); json()
Fetch(r) ==
    IF r.st = "conn_fail" THEN Raise("ConnectionError", MSG_Connection)
    ELSE IF r.st = "http_error" THEN Raise("HTTPError", MSG_HttpStatus)
    ELSE IF r.st = "bad_json" THEN Raise(json_error_class, MSG_BadJson)
    ELSE Ok(r.body)

\* the handlers without the catch-all clause: other exceptions leave the call
Handle_NoCatchAll(exc) ==
    IF IsRequestException(exc.cls) THEN [error |-> S_FailedToFetch \o exc.msg]
    ELSE [escaped |-> exc.cls]

\* the handlers with the catch-all clause first
Handle_CatchAllFirst(exc) == [error |-> S_Unexpected \o exc.msg]

\* the two except clauses
Handle(exc) ==
    IF IsRequestException(exc.cls) THEN [error |-> S_FailedToFetch \o exc.msg]
    ELSE [error |-> S_Unexpected \o exc.msg]

\* key in data and 'usd' in data[key]
HasUsd(data, key) ==
    LET c == Contains(key, data) IN
    IF ~c.ok \/ ~c.v THEN c
    ELSE LET e == GetItem(data, key) IN
         IF ~e.ok THEN e ELSE Contains(JStr(S_usd), e.v)

\* data[key]['usd']
GetUsd(data, key) ==
    LET e == GetItem(data, key) IN
    IF ~e.ok THEN e ELSE GetItem(e.v, JStr(S_usd))

\* the test without the emptiness of coins: 'coins' in search_data
HasCoins_NoEmptyTest(search_data) ==
    IF ~Truthy(search_data) THEN Ok(FALSE)
    ELSE Contains(JStr(S_coins), search_data)

\* search_data and search_data['coins'], as the if statement tests it
HasCoins(search_data) ==
    IF ~Truthy(search_data) THEN Ok(FALSE)
    ELSE LET c == GetItem(search_data, JStr(S_coins)) IN
         IF ~c.ok THEN c ELSE Ok(Truthy(c.v))

\* the last candidate instead of the first: search_data['coins'][-1]['id']
FirstCoinId_Last(search_data) ==
    LET c == GetItem(search_data, JStr(S_coins)) IN
    IF ~c.ok THEN c
    ELSE LET f == GetItem(c.v, JNum(0 - 1)) IN
         IF ~f.ok THEN f ELSE GetItem(f.v, JStr(S_id))

\* search_data['coins'][0]['id']
FirstCoinId(search_data) ==
    LET c == GetItem(search_data, JStr(S_coins)) IN
    IF ~c.ok THEN c
    ELSE LET f == GetItem(c.v, JNum(0)) IN
         IF ~f.ok THEN f ELSE GetItem(f.v, JStr(S_id))

\* the result echoing the lowercased name
PriceResult_LowerToken(name, price) ==
    [token |-> Lower(name), price |-> S_Dollar \o PyStr(price) \o S_USD]

PriceResult(name, price) ==
    [token |-> name, price |-> S_Dollar \o PyStr(price) \o S_USD]

FoundAsResult(name, price, id) ==
    [token |-> name,
     price |-> S_Dollar \o PyStr(price) \o S_FoundAs \o PyStr(id) \o S_Close]

\* the message of the other miss
NoPriceError_AsNotFound(name) == [error |-> S_CouldNotFind \o name \o S_OrItsPrice]

NoPriceError(name) == [error |-> S_NoPriceFor \o name \o S_Dot]

NotFoundError(name) == [error |-> S_CouldNotFind \o name \o S_OrItsPrice]

\* from the first response to the first return or the search request
DirectLookup(name, r) ==
    LET f == Fetch(r) IN
    IF ~f.ok THEN Raised(f)
    ELSE LET key == JStr(DirectKey(name))
             h == HasUsd(f.v, key)
         IN  IF ~h.ok THEN Raised(h)
             ELSE IF h.v
             THEN LET p == GetUsd(f.v, key) IN
                  IF ~p.ok THEN Raised(p) ELSE Return(PriceResult(name, p.v))
             ELSE Continue(JNull)

\* from the search response to a return or the second price request
SearchLookup(name, r) ==
    LET f == Fetch(r) IN
    IF ~f.ok THEN Raised(f)
    ELSE LET h == HasCoins(f.v) IN
         IF ~h.ok THEN Raised(h)
         ELSE IF h.v
         THEN LET id == FirstCoinId(f.v) IN
              IF ~id.ok THEN Raised(id) ELSE Continue(id.v)
         ELSE Return(NotFoundError(name))

\* from the second price response to the return
FallbackLookup(name, id, r) ==
    LET f == Fetch(r) IN
    IF ~f.ok THEN Raised(f)
    ELSE LET h == HasUsd(f.v, id) IN
         IF ~h.ok THEN Raised(h)
         ELSE IF h.v
         THEN LET p == GetUsd(f.v, id) IN
              IF ~p.ok THEN Raised(p) ELSE Return(FoundAsResult(name, p.v, id))
         ELSE Return(NoPriceError(name))

-----------------------------------------------------------------------------
(* The caller and the external service *)

S_btc ==
    <<"b","t","c">>
S_eth ==
    <<"e","t","h">>
S_Btc ==
    <<"B","t","c">>
S_na ==
    <<"n","a">>
S_error ==
    <<"e","r","r","o","r">>
S_x ==
    <<"x">>

Tokens == {S_Btc, S_eth}

Keys == {S_btc, S_eth}

UsdValues == {JNum(n) : n \in 0..MaxUsd} \cup {JNum(65000), JNull, JBool(TRUE)}

\* what a price body may hold under an identifier: the documented {usd: number},
\* a mapping without usd, and values that are no mapping
PriceEntries ==
    {JObj(S_usd :> v) : v \in UsdValues}
        \cup {JObj(NoFields), JNull, JStr(S_usd), JStr(S_na), JList(<<JStr(S_usd)>>)}

PriceBodies ==
    {JObj(k :> e) : k \in Keys, e \in PriceEntries}
        \cup {JObj(NoFields),
              JObj((S_btc :> JObj(S_usd :> JNum(0))) @@ (S_eth :> JObj(S_usd :> JNum(1)))),
              JNull, JList(<<>>), JList(<<JStr(S_btc)>>), JStr(S_btc)}

IdValues == {JStr(k) : k \in Keys} \cup {JNum(1), JList(<<>>)}

Candidates == {JObj(S_id :> v) : v \in IdValues} \cup {JObj(NoFields), JStr(S_x)}

RECURSIVE SeqsUpTo(_, _)
SeqsUpTo(S, n) ==
    IF n = 0 THEN {<<>>}
    ELSE LET shorter == SeqsUpTo(S, n - 1) IN
         shorter \cup {Append(q, x) : q \in shorter, x \in S}

\* the candidates that follow the first one: well-formed
TailCandidates == {JObj(S_id :> JStr(k)) : k \in Keys}

\* candidate sequences: empty, or any first candidate and a well-formed tail
CandidateSeqs ==
    {<<>>} \cup {<<c>> \o t : c \in Candidates, t \in SeqsUpTo(TailCandidates, MaxCoins - 1)}

SearchBodies ==
    {JObj(S_coins :> JList(q)) : q \in CandidateSeqs}
        \cup {JObj(NoFields), JObj(S_x :> JNull), JObj(S_coins :> JNull),
              JObj(S_coins :> JStr(S_x)), JNull, JList(<<>>), JList(<<JStr(S_x)>>)}

\* the body of an error page
ErrorBody == JObj(S_error :> JStr(S_x))

\* what the service may do with one request
Answers(bodies) ==
    {[st |-> "ok", body |-> b] : b \in bodies}
        \cup {[st |-> "conn_fail", body |-> JNull],
              [st |-> "http_error", body |-> ErrorBody],
              [st |-> "bad_json", body |-> JNull]}

Unset == [ty |-> "unset"]
Pending == [pending |-> TRUE]

\* json_error_class is fixed by the installed requests: from 2.27 on json()
\* raises requests.exceptions.JSONDecodeError, a RequestException; before, the
\* json module's JSONDecodeError, a ValueError
Init ==
    /\ pc = "start"
    /\ token_name \in Tokens
    /\ first_coin_id = Unset
    /\ requests = <<>>
    /\ responses = <<>>
    /\ outcome = Pending
    /\ json_error_class \in {"requests.JSONDecodeError", "json.JSONDecodeError"}

\* how a stretch of the body ends: the call returns, or issues request `url`
Finish(step, next_pc, url) ==
    IF step.kind = "next"
    THEN /\ pc' = next_pc
         /\ requests' = Append(requests, url)
         /\ outcome' = outcome
    ELSE /\ pc' = "done"
         /\ requests' = requests
         /\ outcome' = (IF step.kind = "return" THEN step.out ELSE Handle(step.exc))

\* the call: the first requests.get
Call ==
    /\ pc = "start"
    /\ pc' = "direct"
    /\ requests' = Append(requests, PriceUrl(DirectKey(token_name)))
    /\ UNCHANGED <<token_name, first_coin_id, responses, outcome, json_error_class>>

DirectResponse ==
    /\ pc = "direct"
    /\ \E r \in Answers(PriceBodies) :
        /\ responses' = Append(responses, r)
        /\ Finish(DirectLookup(token_name, r), "search", SearchUrl(SearchTerm(token_name)))
    /\ UNCHANGED <<token_name, first_coin_id, json_error_class>>

SearchResponse ==
    /\ pc = "search"
    /\ \E r \in Answers(SearchBodies) :
        LET step == SearchLookup(token_name, r) IN
        /\ responses' = Append(responses, r)
        /\ first_coin_id' = (IF step.kind = "next" THEN step.v ELSE first_coin_id)
        /\ Finish(step, "fallback",
                  PriceUrl(PyStr(IF step.kind = "next" THEN step.v ELSE JNull)))
    /\ UNCHANGED <<token_name, json_error_class>>

FallbackResponse ==
    /\ pc = "fallback"
    /\ \E r \in Answers(PriceBodies) :
        /\ responses' = Append(responses, r)
        /\ Finish(FallbackLookup(token_name, first_coin_id, r), "done", <<>>)
    /\ UNCHANGED <<token_name, first_coin_id, json_error_class>>

Next == Call \/ DirectResponse \/ SearchResponse \/ FallbackResponse

Spec == Init /\ [][Next]_vars

-----------------------------------------------------------------------------
(* Vocabulary of the properties: the service's answers and the caller's view *)

StartsWith(s, prefix) ==
    Len(s) >= Len(prefix) /\ SubSeq(s, 1, Len(prefix)) = prefix

IsPriceResult(o) == DOMAIN o = {"token", "price"}
IsErrorResult(o) == DOMAIN o = {"error"}
ErrorStartsWith(o, prefix) == IsErrorResult(o) /\ StartsWith(o.error, prefix)

Answered(i) == Len(responses) >= i
AnsweredOk(i) == Answered(i) /\ responses[i].st = "ok"

IsMapping(v) == v.ty = "obj"
HasField(v, k) == IsMapping(v) /\ k \in DOMAIN v.o

\* body follows the price schema and carries a usd figure for id
PriceListed(body, id) ==
    HasField(body, id) /\ HasField(body.o[id], S_usd)

\* body follows the price schema and carries no usd figure for id
PriceNotListed(body, id) ==
    /\ IsMapping(body)
    /\ id \in DOMAIN body.o => (IsMapping(body.o[id]) /\ S_usd \notin DOMAIN body.o[id].o)

\* the candidate sequence of a search body, when it has one
HasCandidates(body) == HasField(body, S_coins) /\ body.o[S_coins].ty = "list"
CandidatesOf(body) == body.o[S_coins].l

\* the search body's first candidate carries identifier id (a str)
FirstCandidateIs(body, id) ==
    /\ HasCandidates(body)
    /\ Len(CandidatesOf(body)) >= 1
    /\ HasField(CandidatesOf(body)[1], S_id)
    /\ CandidatesOf(body)[1].o[S_id] = JStr(id)

\* C1: whatever the service does at each request, the call ends with exactly one
\* outcome, a PriceResult (token, price) or an ErrorResult (error only); no fault
\* escapes, and while the call runs it has returned nothing and can go on.
C1_AlwaysStructuredOutcome ==
    /\ pc = "done" => (IsPriceResult(outcome) \/ IsErrorResult(outcome))
    /\ pc # "done" => (outcome = Pending /\ ENABLED Next)
    /\ Len(responses) <= 3

\* a call that ended at its third request, on a malformed body
C1_Witness ==
    /\ pc = "done"
    /\ IsErrorResult(outcome)
    /\ Answered(3)
    /\ responses[3].st = "bad_json"

\* C2: when the direct price response lists lowercase(t) with a usd field, the call
\* returns {token: t as supplied, price: "$<value> USD"} without annotation and
\* issues no further request.
C2_DirectHit ==
    (AnsweredOk(1) /\ PriceListed(responses[1].body, Lower(token_name)))
        => /\ pc = "done"
           /\ outcome = [token |-> token_name,
                         price |-> <<"$">>
                                   \o PyStr(responses[1].body.o[Lower(token_name)].o[S_usd])
                                   \o <<" USD">>]
           /\ Len(requests) = 1
           /\ Len(responses) = 1

\* "Btc" priced at 65000 under "btc"
C2_Witness ==
    /\ token_name = S_Btc
    /\ AnsweredOk(1)
    /\ PriceListed(responses[1].body, S_btc)
    /\ outcome = [token |-> S_Btc, price |-> <<"$", "6", "5", "0", "0", "0", " USD">>]

\* C3: after a direct miss, when the search response has a non-empty candidate
\* sequence and the price response lists the first candidate's id with a usd
\* field, the call returns {token: t, price: "$<value> USD (found as <id>)"} with
\* the first candidate's id and the price fetched for that id.
C3_FirstCandidate ==
    \A id \in Keys :
        (/\ AnsweredOk(2) /\ FirstCandidateIs(responses[2].body, id)
         /\ AnsweredOk(3) /\ PriceListed(responses[3].body, id))
            => /\ pc = "done"
               /\ requests[3] = PriceUrl(id)
               /\ outcome = [token |-> token_name,
                             price |-> <<"$">> \o PyStr(responses[3].body.o[id].o[S_usd])
                                       \o S_FoundAs \o id \o <<")">>]

\* candidates <eth, btc>, both priced, and the price of eth returned
C3_Witness ==
    /\ token_name = S_Btc
    /\ AnsweredOk(2) /\ FirstCandidateIs(responses[2].body, S_eth)
    /\ Len(CandidatesOf(responses[2].body)) = 2
    /\ CandidatesOf(responses[2].body)[2] = JObj(S_id :> JStr(S_btc))
    /\ AnsweredOk(3)
    /\ PriceListed(responses[3].body, S_btc) /\ PriceListed(responses[3].body, S_eth)
    /\ IsPriceResult(outcome)
    /\ outcome.price = <<"$", "1">> \o S_FoundAs \o S_eth \o <<")">>

\* C4: a transport failure or a non-success status at any request ends the call
\* with an ErrorResult starting "Failed to fetch crypto price: "; no request
\* follows the failing one.
C4_TransportFailure ==
    \A i \in 1..Len(responses) :
        responses[i].st \in {"conn_fail", "http_error"}
            => /\ pc = "done"
               /\ ErrorStartsWith(outcome, S_FailedToFetch)
               /\ Len(requests) = i
               /\ Len(responses) = i

\* a non-success status at the third request
C4_Witness ==
    /\ Answered(3)
    /\ responses[3].st = "http_error"
    /\ pc = "done"

\* C5: after a direct miss, a search response with coins = [] ends the call with
\* "Could not find <t> or its price." and without a second price request.
C5_EmptyCandidates ==
    (AnsweredOk(2) /\ responses[2].body = JObj(S_coins :> JList(<<>>)))
        => /\ pc = "done"
           /\ outcome = [error |-> S_CouldNotFind \o token_name \o S_OrItsPrice]
           /\ Len(requests) = 2

C5_Witness ==
    /\ token_name = S_Btc
    /\ AnsweredOk(2)
    /\ responses[2].body = JObj(S_coins :> JList(<<>>))
    /\ pc = "done"

\* C6: a search response without a coins field, empty object or not, ends the
\* call with the lookup-miss message "Could not find <t> or its price.".
C6_AbsentCandidates ==
    (AnsweredOk(2) /\ IsMapping(responses[2].body)
                   /\ S_coins \notin DOMAIN responses[2].body.o)
        => /\ pc = "done"
           /\ outcome = [error |-> S_CouldNotFind \o token_name \o S_OrItsPrice]

\* a search body with other fields and no coins field ended the call
C6_Witness ==
    /\ AnsweredOk(2)
    /\ responses[2].body = JObj(S_x :> JNull)
    /\ pc = "done"

\* C7: after a direct miss and a search that yields a first candidate, a price
\* response (a mapping of identifiers to mappings) that has no entry for the
\* candidate, or an entry without usd, ends the call with
\* "Could not find price for <t>.", t being the token name as supplied; this is
\* not the message of a search without candidates.
C7_CandidateWithoutPrice ==
    \A id \in Keys :
        (/\ AnsweredOk(2) /\ FirstCandidateIs(responses[2].body, id)
         /\ AnsweredOk(3) /\ PriceNotListed(responses[3].body, id))
            => /\ pc = "done"
               /\ outcome = [error |-> S_NoPriceFor \o token_name \o <<".">>]
               /\ outcome # [error |-> S_CouldNotFind \o token_name \o S_OrItsPrice]

\* "Btc" resolved to eth, whose entry has no usd field
C7_Witness ==
    /\ token_name = S_Btc
    /\ AnsweredOk(2) /\ FirstCandidateIs(responses[2].body, S_eth)
    /\ AnsweredOk(3) /\ responses[3].body = JObj(S_eth :> JObj(NoFields))
    /\ outcome = [error |-> S_NoPriceFor \o S_Btc \o <<".">>]

\* the identifier request i asks the price endpoint about
RequestedId(i) == IF i = 1 THEN JStr(Lower(token_name)) ELSE first_coin_id

IsScalar(v) == v.ty \in {"null", "bool", "num"}

\* v is a str or a sequence in which the str k occurs
HoldsText(v, k) ==
    \/ v.ty = "str" /\ IsSubstring(k, v.s)
    \/ v.ty = "list" /\ \E j \in 1..Len(v.l) : v.l[j] = JStr(k)

\* a price body that is no mapping of identifiers to mappings
OddPriceShape(body, id) ==
    \/ ~IsMapping(body)
    \/ id \in DOMAIN body.o /\ ~IsMapping(body.o[id])

\* a price body whose probing for the str id raises: a scalar, a str or sequence
\* holding id, or a mapping whose entry for id is a scalar or holds "usd"
RaisingPriceShape(body, id) ==
    \/ IsScalar(body)
    \/ HoldsText(body, id)
    \/ /\ HasField(body, id)
       /\ (IsScalar(body.o[id]) \/ HoldsText(body.o[id], S_usd))

\* a search body that has a coins field and is no sequence of mappings with ids
OddSearchShape(body) ==
    \/ ~IsMapping(body)
    \/ /\ HasField(body, S_coins)
       /\ \/ body.o[S_coins].ty # "list"
          \/ /\ Len(body.o[S_coins].l) >= 1
             /\ ~HasField(body.o[S_coins].l[1], S_id)

\* a search body whose probing raises: a truthy value that is no mapping, truthy
\* coins that are no sequence, or a first candidate without an id field
RaisingSearchShape(body) ==
    \/ ~IsMapping(body) /\ Truthy(body)
    \/ /\ HasField(body, S_coins)
       /\ Truthy(body.o[S_coins])
       /\ \/ body.o[S_coins].ty # "list"
          \/ ~HasField(body.o[S_coins].l[1], S_id)

\* C8 as stated: a malformed JSON body or a response of unexpected shape, at any
\* of the three requests, makes the call return "An unexpected error occurred: ".
C8_UnexpectedAlways ==
    pc = "done" =>
        \A i \in 1..Len(responses) :
            (\/ responses[i].st = "bad_json"
             \/ /\ responses[i].st = "ok"
                /\ IF i = 2 THEN OddSearchShape(responses[i].body)
                   ELSE /\ RequestedId(i).ty = "str"
                        /\ OddPriceShape(responses[i].body, RequestedId(i).s))
                => ErrorStartsWith(outcome, S_Unexpected)

\* C8 amended: a malformed JSON body ends the call with "An unexpected error
\* occurred: " where response.json() raises a plain ValueError and with "Failed to
\* fetch crypto price: " where it raises requests' JSONDecodeError, which is a
\* RequestException; a response whose probing raises a type, key or index error
\* ends it with "An unexpected error occurred: "; neither is followed by a
\* request. A body that is no mapping, or an entry that is no mapping, whose
\* probing raises nothing counts as a miss of its stage.
C8_UnexpectedWhenRaised ==
    \A i \in 1..Len(responses) :
        /\ responses[i].st = "bad_json"
            => /\ pc = "done" /\ Len(requests) = i
               /\ ErrorStartsWith(outcome,
                     IF json_error_class = "requests.JSONDecodeError"
                     THEN S_FailedToFetch ELSE S_Unexpected)
        /\ (/\ responses[i].st = "ok"
            /\ IF i = 2 THEN RaisingSearchShape(responses[i].body)
               ELSE /\ RequestedId(i).ty = "str"
                    /\ RaisingPriceShape(responses[i].body, RequestedId(i).s))
            => /\ pc = "done" /\ Len(requests) = i
               /\ ErrorStartsWith(outcome, S_Unexpected)
        /\ (/\ responses[i].st = "ok"
            /\ i # 2
            /\ RequestedId(i).ty = "str"
            /\ OddPriceShape(responses[i].body, RequestedId(i).s)
            /\ ~RaisingPriceShape(responses[i].body, RequestedId(i).s))
            => IF i = 1 THEN Len(requests) >= 2
               ELSE outcome = [error |-> S_NoPriceFor \o token_name \o S_Dot]
        /\ (/\ responses[i].st = "ok"
            /\ i = 2
            /\ ~IsMapping(responses[i].body)
            /\ ~Truthy(responses[i].body))
            => outcome = [error |-> S_CouldNotFind \o token_name \o S_OrItsPrice]

\* a null entry at the second price request, reported as unexpected
C8_Witness ==
    /\ Answered(3)
    /\ first_coin_id = JStr(S_eth)
    /\ responses[3] = [st |-> "ok", body |-> JObj(S_eth :> JNull)]
    /\ ErrorStartsWith(outcome, S_Unexpected)

\* C9: the requests are a prefix of <price query for lowercase(t), search query
\* for t as supplied, price query for the first candidate's id>; each is issued
\* once, the search only after a completed direct response without a usd figure
\* for lowercase(t), the second price query only after a completed search
\* response with a non-empty candidate sequence.
C9_RequestOrder ==
    /\ Len(requests) <= 3
    /\ Len(responses) <= Len(requests)
    /\ Len(requests) <= Len(responses) + 1
    /\ Len(requests) >= 1 => requests[1] = PRICE_URL_HEAD \o Lower(token_name) \o PRICE_URL_TAIL
    /\ Len(requests) >= 2 =>
        /\ requests[2] = SEARCH_URL_HEAD \o token_name
        /\ AnsweredOk(1)
        /\ ~PriceListed(responses[1].body, Lower(token_name))
    /\ Len(requests) = 3 =>
        /\ AnsweredOk(2)
        /\ HasCandidates(responses[2].body)
        /\ Len(CandidatesOf(responses[2].body)) >= 1
        /\ HasField(CandidatesOf(responses[2].body)[1], S_id)
        /\ requests[3] = PRICE_URL_HEAD \o PyStr(CandidatesOf(responses[2].body)[1].o[S_id])
                         \o PRICE_URL_TAIL

\* three requests for "Btc": price of btc, search for Btc, price of eth
C9_Witness ==
    /\ token_name = S_Btc
    /\ Len(requests) = 3
    /\ requests[2] = SEARCH_URL_HEAD \o S_Btc
    /\ requests[3] = PRICE_URL_HEAD \o S_eth \o PRICE_URL_TAIL
    /\ pc = "done"

\* C10: when the price endpoint answers both price requests with the same body
\* and the first candidate's id is lowercase(t), the outcome is
\* "Could not find price for <t>."; no "(found as <id>)" result names lowercase(t).
C10_SameIdSameData ==
    (/\ Answered(3)
     /\ first_coin_id = JStr(Lower(token_name))
     /\ responses[3] = responses[1])
        => /\ outcome = [error |-> S_NoPriceFor \o token_name \o S_Dot]
           /\ ~IsPriceResult(outcome)

\* "Btc" resolved to btc, and the same body at both price requests
C10_Witness ==
    /\ token_name = S_Btc
    /\ Answered(3)
    /\ first_coin_id = JStr(S_btc)
    /\ responses[3] = responses[1]
    /\ responses[1].body = JObj(S_eth :> JObj(S_usd :> JNum(1)))
    /\ pc = "done"

=============================================================================
